---- MODULE Spec2Model ----
(***************************************************************************)
(* Turn-taking protocol of the Io desktop pet (io_pet.py, voice.py):       *)
(* the ChatBubble controller on the Qt event loop, the _call_llm dispatch  *)
(* worker threads, the _record_voice capture threads, the queued signals   *)
(* between them and the chat_history.json file.                            *)
(*                                                                         *)
(* The literals of the source are rendered in English.                    *)
(* Text is a sequence of tokens: a character of user/backend supplied text *)
(* is one token, a string literal of the source is one token, and an       *)
(* f-string is the concatenation of its parts.  Python None and the empty  *)
(* string are both <<>> where the code only tests truthiness (answer,      *)
(* text); an optional dict is <<>> (None) or <<d>>.                        *)
(*                                                                         *)
(* A step of a worker thread runs from one access to what it shares (the   *)
(* network, the history file, the signal queue, the fields of the pet) to  *)
(* the next; a slot of the event loop is one step, but for the timer slot  *)
(* _update_activity, which is one step for each field it assigns.  The     *)
(* fields primary, nfallback, newer and polled of a thread (newer of a     *)
(* signal) and the field reply of activity record history and are read by  *)
(* no action.                                                              *)
(*                                                                         *)
(* Spec follows the controller and its threads and keeps the inside of     *)
(* the VoiceModule abstract: a capture ends at some point with some        *)
(* transcript, and the speech threads started by speak_async, which touch  *)
(* no state of the controller, are not followed.  SpecLog runs the         *)
(* dispatch path over the contents chat_history.json may have, SpecRec     *)
(* runs the capture loop of record_audio and SpecSpeak the speak threads.  *)
(* SpecStart is SpecRec from the press of the voice button on, SpecCapture *)
(* a recording nobody stops, up to the emission of its transcript, and     *)
(* SpecNoVoiceFair the typed turns; the last two have fairness conditions. *)
(* SpecLong runs the typed turns on a request whose answers are longer     *)
(* than the preview and than what the log stores, and SpecContext the      *)
(* polls of /context beside the workers that compose their request.        *)
(***************************************************************************)
EXTENDS Integers, Sequences, FiniteSets, Bags, TLC

\* ---------------------------------------------------------------- bounds
MaxTurns == 2      \* threads (dispatch or capture) started in one run
MaxChunks == 61    \* chunks the audio callback delivers in one recording
MaxSpeaks == 2     \* speak threads started in one run
MaxPolled == 1     \* dispatch threads started while /context is polled

\* ------------------------------------------------------- program constants
PreviewLen == 100       \* pending_code.get("code", "")[:100]
ErrLen == 50            \* str(e)[:50]
AiLen == 200            \* answer[:200]
TitleLen == 50          \* self.current_title[:50]
HistoryCap == 100       \* history[-100:]
SampleRate == 16000     \* self.sample_rate
SilenceThreshold == 10  \* self.silence_threshold = 0.01, in thousandths
MaxRecordDuration == 30 \* self.max_record_duration, seconds

\* int(self.silence_duration * self.sample_rate), silence_duration = 1.5
SilenceThresholdSamples == (3 * SampleRate) \div 2

\* ------------------------------------------------------------ text values
Hi == <<"h", "i">>
Out == <<"4", "2">>
ErrMsg == <<"t", "i", "m", "e", "d">>
KeyErrMsg == <<"'language'">>
Now == <<"2025-01-01 10:00">>
Surrogate == "<U+D83D>"      \* a lone surrogate: a str character with no UTF-8 form
LongAnswer == [i \in 1..201 |-> "y"]   \* one character more than is stored
App1 == <<"e", "d">>                   \* names of applications
App2 == <<"s", "h">>
Title1 == <<"a", ".", "p", "y">>       \* window titles
Title2 == <<"~">>
LongTitle == [i \in 1..51 |-> "t"]     \* one character more than is shown

InitText == <<"Click me to start chatting!">>      \* io_pet.py:207
Thinking == <<"Thinking...">>                         \* io_pet.py:426
Recording == <<"Recording...">>                       \* io_pet.py:380
Transcribing == <<"Transcribing...">>                 \* io_pet.py:360
NotHeard == <<"Did not catch that, say it again?">>   \* io_pet.py:417
Cancelled == <<"[Agent] execution cancelled">>        \* io_pet.py:479
ExecFailed == <<"Execution failed">>                  \* io_pet.py:467
Unreachable == <<"Cannot connect. Make sure the service is running">>  \* io_pet.py:539
NoAnswer == <<"Hmm... I do not know what to say">>    \* io_pet.py:568
NoOutput == <<"no output">>                            \* io_pet.py:464

InputTexts == { <<>>, <<" ">>, <<" ", "h", "i", " ">> }
Go == <<"g", "o">>
LongInputs == { Go }         \* a request that is answered at length
VoiceTexts == { <<>>, Hi }
SpeakTexts == { <<>>, Hi, <<"Execution finished">> }     \* io_pet.py:473

\* a chunk the callback appends: its number of samples and
\* np.abs(chunk).mean() in thousandths (below and at the threshold)
Chunks == { [len |-> n, volume |-> v] :
               n \in {SampleRate \div 2, SampleRate}, v \in {5, SilenceThreshold} }

None == <<>>
EmptyDict == <<>>
Code1 == [language |-> <<"py">>, code |-> <<"x", "=", "1">>]
CodeNoLang == [code |-> <<"x", "=", "1">>]

\* a payload whose code is one character longer than the preview
CodeLong == [language |-> <<"py">>, code |-> [i \in 1..101 |-> "x"]]

\* --------------------------------------------------------- python helpers
Min(a, b) == IF a < b THEN a ELSE b

\* s[:n]
Take(s, n) == SubSeq(s, 1, Min(n, Len(s)))

\* s[-n:]
LastN(s, n) == IF Len(s) > n THEN SubSeq(s, Len(s) - n + 1, Len(s)) ELSE s

\* d.get(k, default)
Get(d, k, default) == IF k \in DOMAIN d THEN d[k] ELSE default

\* truthiness of an optional dict: None and {} are falsy
TruthyDict(p) == p # None /\ DOMAIN p[1] # {}

RECURSIVE LStrip(_)
LStrip(s) == IF s # <<>> /\ Head(s) = " " THEN LStrip(Tail(s)) ELSE s

RECURSIVE RStrip(_)
RStrip(s) == IF s # <<>> /\ s[Len(s)] = " "
             THEN RStrip(SubSeq(s, 1, Len(s) - 1)) ELSE s

\* str.strip()
Strip(s) == RStrip(LStrip(s))

\* ------------------------------------------------------- backend outcomes
\* POST /chat: an exception (timeout, connection error, bad JSON), a
\* non-200 status, or 200 with a JSON object whose keys may be missing
\* (the first body has no pending_code, as for a plain chat answer; the
\* response of the second ends in the escape of a lone surrogate).
ChatBodies ==
    { [response |-> Hi, mode |-> "chat"],
      [response |-> <<"h", Surrogate>>, mode |-> "chat"],
      [response |-> Hi, mode |-> "chat", pending_code |-> <<Code1>>],
      [response |-> Hi, mode |-> "agent", pending_code |-> <<Code1>>],
      [response |-> Hi, mode |-> "agent", pending_code |-> <<CodeNoLang>>],
      [response |-> Hi, mode |-> "agent", pending_code |-> <<EmptyDict>>],
      [response |-> <<>>, mode |-> "agent", pending_code |-> <<Code1>>] }

ChatOutcomes ==
    { [kind |-> "exc", status |-> 0, body |-> <<>>],
      [kind |-> "http", status |-> 500, body |-> <<>>] }
    \cup { [kind |-> "http", status |-> 200, body |-> b] : b \in ChatBodies }

\* the answers to the request "go": an action whose code is longer than
\* the preview, a chat answer longer than what the log stores
ChatBodiesLong ==
    { [response |-> Hi, mode |-> "agent", pending_code |-> <<CodeLong>>],
      [response |-> LongAnswer, mode |-> "chat"] }

\* how the POST to /chat that carries prompt may end
ChatReplies(prompt) ==
    IF prompt = Go
    THEN { [kind |-> "exc", status |-> 0, body |-> <<>>] }
         \cup { [kind |-> "http", status |-> 200, body |-> b] :
                   b \in ChatBodiesLong }
    ELSE ChatOutcomes

\* POST /api/chat (Ollama)
FallbackBodies ==
    { [message |-> [content |-> Hi]],
      [message |-> [content |-> <<>>]],
      <<>> }

FallbackOutcomes ==
    { [kind |-> "exc", status |-> 0, body |-> <<>>],
      [kind |-> "http", status |-> 500, body |-> <<>>] }
    \cup { [kind |-> "http", status |-> 200, body |-> b] : b \in FallbackBodies }

\* POST /execute
ExecOutcomes ==
    { [kind |-> "exc", status |-> 0, body |-> <<>>],
      [kind |-> "http", status |-> 500, body |-> <<>>],
      [kind |-> "http", status |-> 200, body |-> [output |-> Out]],
      [kind |-> "http", status |-> 200, body |-> <<>>] }

\* ------------------------------------------------------------------ state
VARIABLES
    voice_module,      \* ChatBubble.voice_module is not None (HAS_VOICE)
    is_recording,      \* ChatBubble.is_recording
    pending_code,      \* ChatBubble.pending_code
    response_label,    \* text shown in the response area
    input_field,       \* text of the input line
    confirm_btn,       \* confirm button visible
    cancel_btn,        \* cancel button visible
    stop_recording,    \* VoiceModule._stop_recording
    threads,           \* bag of the locals of the live _call_llm threads
    nthreads,          \* number of _call_llm threads started
    vthreads,          \* bag of the positions of the live _record_voice threads
    nvoice,            \* number of _record_voice threads started
    sigq,              \* queued signal emissions awaiting the event loop
    history_file,      \* chat_history.json
    executed,          \* POSTs made to /execute, in order
    audio_chunks,      \* record_audio: what the loop reads of audio_chunks:
                       \*   their number, their total length, the last one
    silence_samples,   \* record_audio: silence_samples
    rec_pc,            \* record_audio: position of the capture loop
    tts_engine,        \* VoiceModule.tts_engine
    pyttsx_engine,     \* VoiceModule._pyttsx_engine is not None
    sthreads,          \* bag of the live speak threads
    nspeak,            \* number of speak threads started
    spoken,            \* calls of _speak_edge and _speak_offline, in order
    audio_libs,        \* VoiceModule.initialize can import numpy,
                       \*   sounddevice and soundfile (FALSE when there
                       \*   is no VoiceModule to look for them)
    current_app,       \* IoPet.current_app
    current_title,     \* IoPet.current_title
    activity           \* _update_activity: its position, its local data
                       \*   and the reply of its last request

\* the state inside the VoiceModule
voice_state == <<audio_chunks, silence_samples, rec_pc, tts_engine,
                 pyttsx_engine, sthreads, nspeak, spoken>>

\* the fields of the IoPet widget and its activity timer
pet_state == <<current_app, current_title, activity>>

vars == <<voice_module, is_recording, pending_code, response_label,
          input_field, confirm_btn, cancel_btn, stop_recording, threads,
          nthreads, vthreads, nvoice, sigq, history_file, executed,
          voice_state, audio_libs, pet_state>>

\* the locals of a _call_llm thread at its start (lines 498-500), with its
\* position ctx in get_context, the title and the context of lines 665 and
\* 490, and its history: the request sent to /chat, how the primary attempt
\* ended, the number of fallback requests sent, whether the turn was
\* submitted while the pending action that is still set was awaiting
\* confirmation, and whether current_app or current_title changed while
\* get_context was reading them
NewThread(prompt, newer) ==
    [pc |-> "post_chat", prompt |-> prompt, answer |-> <<>>,
     pending_code |-> None, mode |-> "chat", history |-> <<>>,
     chat_json |-> <<>>, primary |-> "none", nfallback |-> 0,
     newer |-> newer, ctx |-> "if", title |-> <<>>, context |-> <<>>,
     polled |-> FALSE]

InitFiles == { [kind |-> "missing", turns |-> <<>>] }

\* audio_chunks = [] (line 204)
NoChunks == [n |-> 0, total |-> 0, recent |-> <<>>]

\* VoiceModule(language="zh", tts_engine="edge"), nothing recorded or said
InitVoiceModule ==
    /\ audio_chunks = NoChunks
    /\ silence_samples = 0
    /\ rec_pc = "idle"
    /\ tts_engine = "edge"
    /\ pyttsx_engine = FALSE
    /\ sthreads = EmptyBag
    /\ nspeak = 0
    /\ spoken = <<>>

\* IoPet.__init__: current_app = "", current_title = "", the activity
\* timer is started and has not fired
IdleActivity == [pc |-> "idle", data |-> EmptyDict, reply |-> None]

InitPet ==
    /\ current_app = <<>>
    /\ current_title = <<>>
    /\ activity = IdleActivity

\* an entry stored by an earlier run
OldTurn(i) == [time |-> Now, user |-> <<"q", ToString(i)>>, ai |-> <<"a">>]
OldTurns(n) == [i \in 1..n |-> OldTurn(i)]

\* chat_history.json as a session may find it: absent; not parsable as
\* JSON (or not readable); a well-formed JSON document that is not a list;
\* a list one below the cap and one at the cap
LogFiles ==
    InitFiles \cup
    { [kind |-> "malformed", turns |-> <<>>],
      [kind |-> "object", turns |-> <<>>],
      [kind |-> "list", turns |-> OldTurns(HistoryCap - 1)],
      [kind |-> "list", turns |-> OldTurns(HistoryCap)] }

Init ==
    /\ voice_module \in BOOLEAN
    /\ is_recording = FALSE
    /\ pending_code = None
    /\ response_label = InitText
    /\ input_field = <<>>
    /\ confirm_btn = FALSE
    /\ cancel_btn = FALSE
    /\ stop_recording = FALSE
    /\ threads = EmptyBag
    /\ nthreads = 0
    /\ vthreads = EmptyBag
    /\ nvoice = 0
    /\ sigq = <<>>
    /\ history_file \in InitFiles
    /\ executed = <<>>
    /\ InitVoiceModule
    /\ audio_libs \in (IF voice_module THEN BOOLEAN ELSE {FALSE})
    /\ InitPet

\* ----------------------------------------------------------- history file
\* json.load returned a list: the file holds a list, or it is missing or
\* json.load raised and [] is returned; a JSON object, string, number or
\* null is returned as it is
LoadsList(file) == file.kind # "object"

\* the list load_history returns (when it returns one)
load_history(file) == IF file.kind = "list" THEN file.turns ELSE <<>>

\* the text can be written with encoding="utf-8"
Encodable(text) == \A i \in 1..Len(text) : text[i] # Surrogate

\* json.dump of the list to the file opened with "w" (the disk is
\* writable): the file is truncated, and a text that cannot be encoded
\* raises in f.write, which is swallowed and leaves a part of the document
save_history(history) ==
    IF \A i \in 1..Len(history) :
          Encodable(history[i].user) /\ Encodable(history[i].ai)
    THEN [kind |-> "list", turns |-> history]
    ELSE [kind |-> "malformed", turns |-> <<>>]

\* ---------------------------------------------------------------- signals
Signal(sig, text, code, newer) ==
    [sig |-> sig, text |-> text, code |-> code, newer |-> newer]

\* the pending action changed: no turn in flight is newer than it
Settle(b) ==
    LET S == { [t EXCEPT !.newer = FALSE] : t \in BagToSet(b) } IN
    [u \in S |-> CopiesIn(u, b) + CopiesIn([u EXCEPT !.newer = TRUE], b)]

SettleQ(q) == [i \in 1..Len(q) |-> [q[i] EXCEPT !.newer = FALSE]]

\* non-empty transcripts already queued: each will start a dispatch thread
QueuedSends ==
    Cardinality({ i \in 1..Len(sigq) :
                    sigq[i].sig = "voice_text_ready" /\ sigq[i].text # <<>> })

\* a thread may still be started within MaxTurns
CanSpawn == nthreads + nvoice + QueuedSends < MaxTurns

\* ------------------------------------------------- ChatBubble: UI handlers
\* threading.Thread(target=self._call_llm, args=(text,)).start()
StartCallLlm(text) ==
    /\ threads' = threads (+) SetToBag({NewThread(text, pending_code # None)})
    /\ nthreads' = nthreads + 1

\* send_message without the strip(): only the empty text is ignored
SendMessageBody_NoStrip(field) ==
    IF field = <<>>
    THEN /\ input_field' = field
         /\ UNCHANGED <<response_label, threads, nthreads>>
    ELSE /\ input_field' = <<>>
         /\ response_label' = Thinking
         /\ StartCallLlm(Strip(field))

\* body of send_message, reading the line edit whose text is field
SendMessageBody(field) ==
    IF Strip(field) = <<>>
    THEN /\ input_field' = field
         /\ UNCHANGED <<response_label, threads, nthreads>>
    ELSE /\ input_field' = <<>>
         /\ response_label' = Thinking
         /\ StartCallLlm(Strip(field))

\* send_message run on the text t the user has typed
SendMessage(t) ==
    /\ Strip(t) # <<>> => CanSpawn
    /\ SendMessageBody(t)
    /\ UNCHANGED <<voice_module, audio_libs, pet_state,
                   is_recording, pending_code, confirm_btn,
                   cancel_btn, stop_recording, vthreads, nvoice, sigq,
                   history_file, executed, voice_state>>

\* returnPressed / send button
send_message == \E t \in InputTexts : SendMessage(t)

\* the handler without the test of is_recording: every press starts a
\* capture thread
toggle_voice_input_always_starts ==
    /\ voice_module
    /\ CanSpawn
    /\ is_recording' = TRUE
    /\ response_label' = Recording
    /\ vthreads' = vthreads (+) SetToBag({"init"})
    /\ nvoice' = nvoice + 1
    /\ UNCHANGED <<voice_module, audio_libs, pet_state,
                   pending_code, input_field, confirm_btn,
                   cancel_btn, stop_recording, threads, nthreads, sigq,
                   history_file, executed, voice_state>>

\* voice button (enabled only when HAS_VOICE)
toggle_voice_input ==
    /\ voice_module
    /\ IF is_recording
       THEN /\ stop_recording' = TRUE
            /\ response_label' = Transcribing
            /\ UNCHANGED <<is_recording, vthreads, nvoice>>
       ELSE /\ CanSpawn
            /\ is_recording' = TRUE
            /\ response_label' = Recording
            /\ vthreads' = vthreads (+) SetToBag({"init"})
            /\ nvoice' = nvoice + 1
            /\ UNCHANGED stop_recording
    /\ UNCHANGED <<voice_module, audio_libs, pet_state,
                   pending_code, input_field, confirm_btn,
                   cancel_btn, threads, nthreads, sigq, history_file,
                   executed, voice_state>>

\* the slot without its else branch: every transcript is sent
_on_voice_text_sends_all(text) ==
    /\ is_recording' = FALSE
    /\ SendMessageBody(text)
    /\ UNCHANGED <<pending_code, confirm_btn, cancel_btn>>

_on_voice_text(text) ==
    /\ is_recording' = FALSE
    /\ IF text # <<>>
       THEN SendMessageBody(text)
       ELSE /\ response_label' = NotHeard
            /\ UNCHANGED <<input_field, threads, nthreads>>
    /\ UNCHANGED <<pending_code, confirm_btn, cancel_btn>>

_update_response(text) ==
    /\ response_label' = text
    /\ UNCHANGED <<is_recording, pending_code, input_field, confirm_btn,
                   cancel_btn, threads, nthreads>>

\* the preview shows the whole code
ConfirmText_WholeCode(response_text, code) ==
    <<"[Agent] ">> \o response_text \o <<"\n\nCode to run:\n">>
        \o Get(code, "code", <<>>) \o <<"...">>

\* display_text of line 441
ConfirmText(response_text, code) ==
    <<"[Agent] ">> \o response_text \o <<"\n\nCode to run:\n">>
        \o Take(Get(code, "code", <<>>), PreviewLen) \o <<"...">>

_show_code_confirm(response_text, code) ==
    /\ pending_code' = code
    /\ response_label' = ConfirmText(response_text, code[1])
    /\ confirm_btn' = TRUE
    /\ cancel_btn' = TRUE
    /\ threads' = Settle(threads)
    /\ UNCHANGED <<is_recording, input_field, nthreads>>

\* the event loop runs the slot of the oldest queued emission
Deliver ==
    /\ sigq # <<>>
    /\ LET m == Head(sigq) IN
         CASE m.sig = "response_ready" -> _update_response(m.text)
           [] m.sig = "voice_text_ready" -> _on_voice_text(m.text)
           [] m.sig = "code_confirm_ready" -> _show_code_confirm(m.text, m.code)
    /\ sigq' = IF Head(sigq).sig = "code_confirm_ready"
               THEN SettleQ(Tail(sigq)) ELSE Tail(sigq)
    /\ UNCHANGED <<voice_module, audio_libs, pet_state,
                   stop_recording, vthreads, nvoice,
                   history_file, executed, voice_state>>

\* the buttons are hidden and the pending action is kept
_hide_confirm_buttons_only ==
    /\ confirm_btn' = FALSE
    /\ cancel_btn' = FALSE
    /\ pending_code' = pending_code

_hide_confirm_buttons ==
    /\ confirm_btn' = FALSE
    /\ cancel_btn' = FALSE
    /\ pending_code' = None

\* str(e) of the KeyError raised while building the request body
KeyErrorOf(d) == IF "language" \notin DOMAIN d THEN KeyErrMsg
                 ELSE <<"'code'">>

ExecText(o) ==
    IF o.kind = "exc" THEN <<"Execution error: ">> \o Take(ErrMsg, ErrLen)
    ELSE IF o.status = 200
         THEN <<"[Agent] Execution finished:\n">> \o Get(o.body, "output", NoOutput)
         ELSE ExecFailed

\* the handler without its try/except: an exception leaves before line 471
_on_confirm_execute_uncaught ==
    /\ confirm_btn
    /\ TruthyDict(pending_code)
    /\ LET d == pending_code[1] IN
         IF {"language", "code"} \subseteq DOMAIN d
         THEN /\ executed' = Append(executed,
                      [language |-> d["language"], code |-> d["code"]])
              /\ \E o \in ExecOutcomes :
                    IF o.kind = "exc"
                    THEN UNCHANGED <<pending_code, response_label,
                                     confirm_btn, cancel_btn, threads, sigq>>
                    ELSE /\ response_label' = ExecText(o)
                         /\ _hide_confirm_buttons
                         /\ threads' = Settle(threads)
                         /\ sigq' = SettleQ(sigq)
         ELSE UNCHANGED <<pending_code, response_label, confirm_btn,
                          cancel_btn, threads, sigq, executed>>
    /\ UNCHANGED <<voice_module, audio_libs, pet_state,
                   is_recording, input_field, stop_recording,
                   nthreads, vthreads, nvoice, history_file, voice_state>>

\* confirm button (clickable only while shown); the POST blocks the event
\* loop, so the handler is one step
_on_confirm_execute ==
    /\ confirm_btn
    /\ IF ~TruthyDict(pending_code)
       THEN UNCHANGED <<pending_code, response_label, confirm_btn,
                        cancel_btn, executed, threads, sigq>>
       ELSE /\ LET d == pending_code[1] IN
                 IF {"language", "code"} \subseteq DOMAIN d
                 THEN /\ executed' = Append(executed,
                              [language |-> d["language"], code |-> d["code"]])
                      /\ \E o \in ExecOutcomes : response_label' = ExecText(o)
                 ELSE /\ response_label' =
                              <<"Execution error: ">> \o Take(KeyErrorOf(d), ErrLen)
                      /\ UNCHANGED executed
            /\ _hide_confirm_buttons
            /\ threads' = Settle(threads)
            /\ sigq' = SettleQ(sigq)
    /\ UNCHANGED <<voice_module, audio_libs, pet_state,
                   is_recording, input_field, stop_recording,
                   nthreads, vthreads, nvoice, history_file, voice_state>>

\* cancel that hides the buttons but keeps the pending action
_on_cancel_execute_keeps ==
    /\ cancel_btn
    /\ confirm_btn' = FALSE
    /\ cancel_btn' = FALSE
    /\ response_label' = Cancelled
    /\ UNCHANGED <<voice_module, audio_libs, pet_state,
                   is_recording, pending_code, input_field,
                   stop_recording, threads, nthreads, vthreads, nvoice, sigq,
                   history_file, executed, voice_state>>

\* cancel button (clickable only while shown)
_on_cancel_execute ==
    /\ cancel_btn
    /\ pending_code' = None
    /\ _hide_confirm_buttons
    /\ response_label' = Cancelled
    /\ threads' = Settle(threads)
    /\ sigq' = SettleQ(sigq)
    /\ UNCHANGED <<voice_module, audio_libs, pet_state,
                   is_recording, input_field, stop_recording,
                   nthreads, vthreads, nvoice, history_file, executed, voice_state>>

\* ------------------------------------------- ChatBubble._call_llm (worker)
\* what a worker step leaves alone: the widgets and the other threads
WorkerFrame ==
    UNCHANGED <<voice_module, audio_libs, pet_state,
                is_recording, pending_code, response_label,
                input_field, confirm_btn, cancel_btn, stop_recording,
                nthreads, vthreads, nvoice, executed, voice_state>>

\* thread t moves on with locals t2 / thread t ends
Step(t, t2) == threads' = (threads (-) SetToBag({t})) (+) SetToBag({t2})
Finish(t) == threads' = threads (-) SetToBag({t})

\* title[:50] + "..." if len(title) > 50 else title
CutTitle(title) ==
    IF Len(title) > TitleLen THEN Take(title, TitleLen) \o <<"...">> ELSE title

\* the f-strings of lines 666 and 668
ContextBoth(app, title) ==
    <<"User is using ">> \o app \o <<", window: ">> \o title
ContextApp(app) == <<"User is using ">> \o app

\* IoPet.get_context when both fields keep the values app and title
get_context(app, title) ==
    IF app # <<>> /\ title # <<>>
    THEN ContextBoth(app, CutTitle(title))
    ELSE IF app # <<>> THEN ContextApp(app) ELSE <<>>

\* context = self.parent_pet.get_context() (line 490), run on the worker
\* thread: one step for each read of current_app or current_title
_call_llm_get_context(t) ==
    /\ t.pc = "post_chat"
    /\ t.ctx # "done"
    /\ Step(t,
         CASE t.ctx = "if" ->        \* 664, left operand
                [t EXCEPT !.ctx = IF current_app # <<>>
                                  THEN "and" ELSE "elif"]
           [] t.ctx = "and" ->       \* 664, right operand
                [t EXCEPT !.ctx = IF current_title # <<>>
                                  THEN "len" ELSE "elif"]
           [] t.ctx = "len" ->       \* 665, the condition
                [t EXCEPT !.ctx = IF Len(current_title) > TitleLen
                                  THEN "cut" ELSE "whole"]
           [] t.ctx = "cut" ->       \* 665, the slice
                [t EXCEPT !.ctx = "fmt",
                          !.title = Take(current_title, TitleLen)
                                       \o <<"...">>]
           [] t.ctx = "whole" ->     \* 665, the whole title
                [t EXCEPT !.ctx = "fmt", !.title = current_title]
           [] t.ctx = "fmt" ->       \* 666
                [t EXCEPT !.ctx = "done",
                          !.context = ContextBoth(current_app, t.title)]
           [] t.ctx = "elif" ->      \* 667
                [t EXCEPT !.ctx = IF current_app # <<>>
                                  THEN "fmt_app" ELSE "done"]
           [] t.ctx = "fmt_app" ->   \* 668
                [t EXCEPT !.ctx = "done",
                          !.context = ContextApp(current_app)])
    /\ UNCHANGED <<sigq, history_file>>
    /\ WorkerFrame

\* the system prompt of lines 493-496 with context_info of line 491
SystemPrompt == <<"You are Io, the desktop pet assistant ...">>
ContextInfo(context) ==
    IF context # <<>> THEN <<"\nCurrent state: ">> \o context ELSE <<>>

\* json= of the POST to /chat
ChatRequest(prompt, context) ==
    [message |-> SystemPrompt \o ContextInfo(context)
                    \o <<"\n\nUser: ">> \o prompt,
     stream |-> FALSE, auto_run |-> FALSE]

\* requests.post("http://localhost:8000/chat", ...) is sent
_call_llm_post_chat(t) ==
    /\ t.pc = "post_chat"
    /\ t.ctx = "done"
    /\ Step(t, [t EXCEPT !.pc = "wait_chat",
                         !.chat_json = ChatRequest(t.prompt, t.context)])
    /\ UNCHANGED <<sigq, history_file>>
    /\ WorkerFrame

\* the fallback is called in every turn / in no turn
NeedsFallback_Always(answer) == TRUE
NeedsFallback_Never(answer) == FALSE

\* "if not answer": the fallback backend is needed
NeedsFallback(answer) == answer = <<>>

\* the locals after the primary request ended with outcome o (lines 510-516)
AfterChat(t, o) ==
    LET ok == o.kind = "http" /\ o.status = 200
        answer == IF ok THEN Get(o.body, "response", <<>>) ELSE <<>>
    IN [t EXCEPT
          !.answer = answer,
          !.pending_code = IF ok THEN Get(o.body, "pending_code", None) ELSE None,
          !.mode = IF ok THEN Get(o.body, "mode", "chat") ELSE "chat",
          !.primary = IF answer # <<>> THEN "answered" ELSE "failed"]

\* the entry stores the whole answer
Turn_WholeAnswer(prompt, answer) ==
    [time |-> Now, user |-> prompt, ai |-> answer]

\* the entry appended for a turn (lines 546-550)
Turn(prompt, answer) ==
    [time |-> Now, user |-> prompt, ai |-> Take(answer, AiLen)]

\* the cap written as history[:100]: the oldest entries are kept
AppendCapped_KeepsOldest(history, turn) ==
    Take(Append(history, turn), HistoryCap)

\* history.append(...) followed by the cap
AppendCapped(history, turn) == LastN(Append(history, turn), HistoryCap)

\* a turn is logged although it has no answer
HasAnswer_Always(answer) == TRUE

\* "if answer:"
HasAnswer(answer) == answer # <<>>

\* lines 543-568 up to the first access to the file or the UI, for thread
\* t whose locals have become u: the history is loaded and the turn is
\* appended to the copy (history.append raises AttributeError when what
\* was loaded is no list, which ends the thread), or the empty answer is
\* reported and the thread ends
Result(t, u) ==
    IF HasAnswer(u.answer)
    THEN /\ IF LoadsList(history_file)
            THEN Step(t, [u EXCEPT
                    !.history = AppendCapped(load_history(history_file),
                                             Turn(u.prompt, u.answer)),
                    !.pc = "save"])
            ELSE Finish(t)
         /\ UNCHANGED sigq
    ELSE /\ sigq' = Append(sigq, Signal("response_ready", NoAnswer, None,
                                        u.newer))
         /\ Finish(t)

\* the primary request ends (response, exception or timeout); then either
\* mode = "fallback" and the request to localhost:11434/api/chat is sent,
\* or the answer is processed
_call_llm_chat_returns(t) ==
    /\ t.pc = "wait_chat"
    /\ \E o \in ChatReplies(t.prompt) :
         LET u == AfterChat(t, o) IN
         IF NeedsFallback(u.answer)
         THEN /\ Step(t, [u EXCEPT !.pc = "wait_fallback",
                                   !.mode = "fallback",
                                   !.nfallback = @ + 1])
              /\ UNCHANGED sigq
         ELSE Result(t, u)
    /\ UNCHANGED history_file
    /\ WorkerFrame

\* the answer after the fallback request returned a response (lines 535-537)
AfterFallback(t, o) ==
    [t EXCEPT !.answer =
        IF o.status = 200
        THEN Get(Get(o.body, "message", <<>>), "content", <<>>)
        ELSE t.answer]

\* the fallback request ends: an exception is reported as unreachable and
\* the thread returns; otherwise the answer is processed
_call_llm_fallback_returns(t) ==
    /\ t.pc = "wait_fallback"
    /\ \E o \in FallbackOutcomes :
         IF o.kind = "exc"
         THEN /\ sigq' = Append(sigq,
                           Signal("response_ready", Unreachable, None,
                                  t.newer))
              /\ Finish(t)
         ELSE Result(t, AfterFallback(t, o))
    /\ UNCHANGED history_file
    /\ WorkerFrame

\* the worker goes on to the hand-off without writing the file
_call_llm_save_skipped(t) ==
    /\ t.pc = "save"
    /\ Step(t, [t EXCEPT !.pc = "emit", !.history = <<>>])
    /\ UNCHANGED <<sigq, history_file>>
    /\ WorkerFrame

\* save_history(history)
_call_llm_save(t) ==
    /\ t.pc = "save"
    /\ history_file' = save_history(t.history)
    /\ Step(t, [t EXCEPT !.pc = "emit", !.history = <<>>])
    /\ UNCHANGED sigq
    /\ WorkerFrame

\* the mode test / the payload test is missing
RoutesToConfirm_AnyMode(code, mode) == TruthyDict(code)
RoutesToConfirm_AnyPayload(code, mode) == mode = "agent"

\* "if pending_code and mode == 'agent'"
RoutesToConfirm(code, mode) == TruthyDict(code) /\ mode = "agent"

\* every answer is labelled as a chat answer
ModeLabel_AlwaysChat(mode) == <<"[Chat]">>

\* {"chat": "[Chat]", "agent": "[Agent]", "fallback": "[Backup]"}.get(mode, "")
ModeLabel(mode) ==
    CASE mode = "chat" -> <<"[Chat]">>
      [] mode = "agent" -> <<"[Agent]">>
      [] mode = "fallback" -> <<"[Backup]">>
      [] OTHER -> <<>>

\* the signal by which an answered turn is handed to the UI
Handoff(t) ==
    IF RoutesToConfirm(t.pending_code, t.mode)
    THEN Signal("code_confirm_ready", t.answer, t.pending_code, t.newer)
    ELSE Signal("response_ready", ModeLabel(t.mode) \o <<" ">> \o t.answer,
                None, t.newer)

\* the worker sets the text of the response area itself
_call_llm_emit_direct(t) ==
    /\ t.pc = "emit"
    /\ response_label' = Handoff(t).text
    /\ Finish(t)
    /\ UNCHANGED <<voice_module, audio_libs, pet_state,
                   is_recording, pending_code, input_field,
                   confirm_btn, cancel_btn, stop_recording, nthreads,
                   vthreads, nvoice, executed, sigq, history_file, voice_state>>

\* the thread of an answered turn ends without a hand-off
_call_llm_emit_nothing(t) ==
    /\ t.pc = "emit"
    /\ Finish(t)
    /\ UNCHANGED <<sigq, history_file>>
    /\ WorkerFrame

\* the hand-off of an answered turn; the thread ends
_call_llm_emit(t) ==
    /\ t.pc = "emit"
    /\ sigq' = Append(sigq, Handoff(t))
    /\ Finish(t)
    /\ UNCHANGED history_file
    /\ WorkerFrame

_call_llm ==
    \E t \in BagToSet(threads) :
        \/ _call_llm_get_context(t)
        \/ _call_llm_post_chat(t)
        \/ _call_llm_chat_returns(t)
        \/ _call_llm_fallback_returns(t)
        \/ _call_llm_save(t)
        \/ _call_llm_emit(t)

\* ---------------------------------------- ChatBubble._record_voice (worker)
VoiceFrame ==
    UNCHANGED <<voice_module, audio_libs, pet_state,
                is_recording, pending_code, response_label,
                input_field, confirm_btn, cancel_btn, threads, nthreads,
                nvoice, history_file, executed, voice_state>>

\* voice_input: initialize() cannot import a library and returns False,
\* and None is returned; or record_audio starts and resets the stop flag
_record_voice_start ==
    /\ BagIn("init", vthreads)
    /\ \/ /\ ~audio_libs
          /\ vthreads' = vthreads (-) SetToBag({"init"})
          /\ sigq' = Append(sigq, Signal("voice_text_ready", <<>>, None, FALSE))
          /\ UNCHANGED stop_recording
       \/ /\ audio_libs
          /\ vthreads' = (vthreads (-) SetToBag({"init"}))
                             (+) SetToBag({"recording"})
          /\ stop_recording' = FALSE
          /\ UNCHANGED sigq
    /\ VoiceFrame

\* the capture loop ends and the transcript (or "" for None or an
\* exception) is emitted
_record_voice_finish ==
    /\ BagIn("recording", vthreads)
    /\ \E text \in VoiceTexts :
         /\ text # <<>> => CanSpawn
         /\ sigq' = Append(sigq, Signal("voice_text_ready", text, None, FALSE))
    /\ vthreads' = vthreads (-) SetToBag({"recording"})
    /\ UNCHANGED stop_recording
    /\ VoiceFrame

_record_voice == _record_voice_start \/ _record_voice_finish

\* ------------------------------------------- VoiceModule.record_audio
\* what a step inside the VoiceModule leaves alone: the controller, its
\* threads, the queue and the file
ModuleFrame ==
    UNCHANGED <<voice_module, audio_libs, pet_state,
                is_recording, pending_code, response_label,
                input_field, confirm_btn, cancel_btn, threads, nthreads,
                vthreads, nvoice, sigq, history_file, executed>>

\* the stream is open and the loop runs
Capturing == rec_pc \in {"sleep", "chunks", "total"}

\* callback(indata, ...) on the audio thread: audio_chunks.append
callback ==
    /\ Capturing
    /\ audio_chunks.n < MaxChunks
    /\ \E c \in Chunks :
         audio_chunks' = [n |-> audio_chunks.n + 1,
                          total |-> audio_chunks.total + c.len,
                          recent |-> <<c>>]
    /\ UNCHANGED <<stop_recording, silence_samples, rec_pc, tts_engine,
                   pyttsx_engine, sthreads, nspeak, spoken>>
    /\ ModuleFrame

\* sd.sleep(100) is over: "if self._stop_recording: break"
record_audio_stop_check ==
    /\ rec_pc = "sleep"
    /\ rec_pc' = IF stop_recording THEN "manual" ELSE "chunks"
    /\ UNCHANGED <<stop_recording, audio_chunks, silence_samples, tts_engine,
                   pyttsx_engine, sthreads, nspeak, spoken>>
    /\ ModuleFrame

\* a loud chunk does not reset the count
SilenceAfter_NoReset(silence, recent) ==
    IF recent = <<>> THEN silence
    ELSE IF recent[1].volume < SilenceThreshold
         THEN silence + recent[1].len
         ELSE silence

\* silence_samples after lines 226-238 have looked at audio_chunks[-1]
SilenceAfter(silence, recent) ==
    IF recent = <<>> THEN silence
    ELSE IF recent[1].volume < SilenceThreshold
         THEN silence + recent[1].len
         ELSE 0

\* lines 226-238: the last chunk is measured; "break" on enough silence
record_audio_silence_check ==
    /\ rec_pc = "chunks"
    /\ silence_samples' = SilenceAfter(silence_samples, audio_chunks.recent)
    /\ rec_pc' = IF /\ audio_chunks.recent # <<>>
                    /\ audio_chunks.recent[1].volume < SilenceThreshold
                    /\ silence_samples' >= SilenceThresholdSamples
                 THEN "silence" ELSE "total"
    /\ UNCHANGED <<stop_recording, audio_chunks, tts_engine, pyttsx_engine,
                   sthreads, nspeak, spoken>>
    /\ ModuleFrame

\* the loop without the test of the maximal duration
record_audio_max_check_never ==
    /\ rec_pc = "total"
    /\ rec_pc' = "sleep"
    /\ UNCHANGED <<stop_recording, audio_chunks, silence_samples, tts_engine,
                   pyttsx_engine, sthreads, nspeak, spoken>>
    /\ ModuleFrame

\* lines 241-246: "break" above the maximal duration, else sleep again
record_audio_max_check ==
    /\ rec_pc = "total"
    /\ rec_pc' = IF audio_chunks.total > SampleRate * MaxRecordDuration
                 THEN "max" ELSE "sleep"
    /\ UNCHANGED <<stop_recording, audio_chunks, silence_samples, tts_engine,
                   pyttsx_engine, sthreads, nspeak, spoken>>
    /\ ModuleFrame

\* the stream raises (the device is lost): "except Exception: pass"
record_audio_raises ==
    /\ rec_pc = "sleep"
    /\ rec_pc' = "error"
    /\ UNCHANGED <<stop_recording, audio_chunks, silence_samples, tts_engine,
                   pyttsx_engine, sthreads, nspeak, spoken>>
    /\ ModuleFrame

record_audio ==
    \/ record_audio_stop_check
    \/ record_audio_silence_check
    \/ record_audio_max_check
    \/ record_audio_raises

\* a recording started with the voice button has entered its loop
InitRec ==
    /\ voice_module = TRUE
    /\ is_recording = TRUE
    /\ pending_code = None
    /\ response_label = Recording
    /\ input_field = <<>>
    /\ confirm_btn = FALSE
    /\ cancel_btn = FALSE
    /\ stop_recording = FALSE
    /\ threads = EmptyBag
    /\ nthreads = 0
    /\ vthreads = SetToBag({"recording"})
    /\ nvoice = 1
    /\ sigq = <<>>
    /\ history_file \in InitFiles
    /\ executed = <<>>
    /\ audio_chunks = NoChunks
    /\ silence_samples = 0
    /\ rec_pc = "sleep"
    /\ tts_engine = "edge"
    /\ pyttsx_engine = FALSE
    /\ sthreads = EmptyBag
    /\ nspeak = 0
    /\ spoken = <<>>
    /\ audio_libs = TRUE
    /\ InitPet

NextRec ==
    \/ toggle_voice_input
    \/ callback
    \/ record_audio

SpecRec == InitRec /\ [][NextRec]_vars

\* ------------------------------------------- the start-up of a recording
\* voice_input on the capture thread: initialize() succeeds and
\* record_audio runs lines 198-215 (the stop flag is reset, the chunks and
\* the counter are set up, the stream is opened)
record_audio_begin ==
    /\ audio_libs
    /\ BagIn("init", vthreads)
    /\ rec_pc = "idle"
    /\ vthreads' = (vthreads (-) SetToBag({"init"}))
                      (+) SetToBag({"recording"})
    /\ stop_recording' = FALSE
    /\ audio_chunks' = NoChunks
    /\ silence_samples' = 0
    /\ rec_pc' = "sleep"
    /\ UNCHANGED <<voice_module, audio_libs, pet_state,
                   is_recording, pending_code, response_label,
                   input_field, confirm_btn, cancel_btn, threads, nthreads,
                   nvoice, sigq, history_file, executed, tts_engine,
                   pyttsx_engine, sthreads, nspeak, spoken>>

\* the voice button has been pressed and the capture thread has been
\* started (lines 371-385); it has not run yet
InitStart ==
    /\ voice_module = TRUE
    /\ is_recording = TRUE
    /\ pending_code = None
    /\ response_label = Recording
    /\ input_field = <<>>
    /\ confirm_btn = FALSE
    /\ cancel_btn = FALSE
    /\ stop_recording = FALSE
    /\ threads = EmptyBag
    /\ nthreads = 0
    /\ vthreads = SetToBag({"init"})
    /\ nvoice = 1
    /\ sigq = <<>>
    /\ history_file \in InitFiles
    /\ executed = <<>>
    /\ InitVoiceModule
    /\ audio_libs \in BOOLEAN
    /\ InitPet

NextStart ==
    \/ toggle_voice_input
    \/ record_audio_begin
    \/ callback
    \/ record_audio

SpecStart == InitStart /\ [][NextStart]_vars

\* ------------------------------------- a recording nobody stops, to its end
\* voice_input: initialize() returns False (a library is missing), None is
\* returned and _record_voice emits ""
voice_input_not_initialized ==
    /\ ~audio_libs
    /\ BagIn("init", vthreads)
    /\ rec_pc = "idle"
    /\ vthreads' = vthreads (-) SetToBag({"init"})
    /\ sigq' = Append(sigq, Signal("voice_text_ready", <<>>, None, FALSE))
    /\ UNCHANGED <<voice_module, audio_libs, pet_state,
                   is_recording, pending_code, response_label,
                   input_field, confirm_btn, cancel_btn, stop_recording,
                   threads, nthreads, nvoice, history_file, executed,
                   voice_state>>

\* the loop has ended: record_audio returns the audio (None after an
\* exception or without chunks), voice_input returns the transcript (None
\* without audio) and _record_voice emits it, or "" for None
voice_input_returns ==
    /\ BagIn("recording", vthreads)
    /\ rec_pc \in {"manual", "silence", "max", "error"}
    /\ \E text \in VoiceTexts :
         /\ (rec_pc = "error" \/ audio_chunks.n = 0) => text = <<>>
         /\ sigq' = Append(sigq, Signal("voice_text_ready", text, None, FALSE))
    /\ vthreads' = vthreads (-) SetToBag({"recording"})
    /\ rec_pc' = "idle"
    /\ UNCHANGED <<voice_module, audio_libs, pet_state,
                   is_recording, pending_code, response_label,
                   input_field, confirm_btn, cancel_btn, stop_recording,
                   threads, nthreads, nvoice, history_file, executed,
                   audio_chunks, silence_samples, tts_engine, pyttsx_engine,
                   sthreads, nspeak, spoken>>

\* the user does not press the voice button again
NextCapture ==
    \/ voice_input_not_initialized
    \/ record_audio_begin
    \/ callback
    \/ record_audio
    \/ voice_input_returns

\* Scheduling: the capture thread runs, and the open stream keeps calling
\* the callback with the blocks of samples it has captured.
SpecCapture ==
    /\ InitStart
    /\ [][NextCapture]_vars
    /\ WF_vars(voice_input_not_initialized \/ record_audio_begin)
    /\ WF_vars(callback)
    /\ WF_vars(record_audio)
    /\ WF_vars(voice_input_returns)

\* --------------------------------------------------- VoiceModule.speak
SpeakFrame ==
    UNCHANGED <<stop_recording, audio_chunks, silence_samples, rec_pc,
                tts_engine>>

\* how asyncio.run(_speak()) ends: played; ImportError of edge_tts or
\* pygame; another Exception (synthesis, network, playback) inside the
\* coroutine; asyncio.run itself raises
EdgeOutcomes == {"ok", "ImportError", "Exception", "run raises"}

\* speak_async(text): threading.Thread(target=self.speak, args=(text,))
speak_async ==
    /\ nspeak < MaxSpeaks
    /\ \E text \in SpeakTexts :
         sthreads' = sthreads (+) SetToBag({[pc |-> "speak", text |-> text]})
    /\ nspeak' = nspeak + 1
    /\ UNCHANGED <<pyttsx_engine, spoken>>
    /\ SpeakFrame
    /\ ModuleFrame

\* speak thread t goes on at pc / returns
SpeakStep(t, pc) ==
    sthreads' = (sthreads (-) SetToBag({t})) (+) SetToBag({[t EXCEPT !.pc = pc]})
SpeakReturn(t) == sthreads' = sthreads (-) SetToBag({t})

\* the call of a backend function that has returned
Call(fn, text, ok) == [fn |-> fn, text |-> text, ok |-> ok]

\* speak(text), lines 315-321
speak_begin(t) ==
    /\ t.pc = "speak"
    /\ IF t.text = <<>> THEN SpeakReturn(t)
       ELSE IF tts_engine = "edge" THEN SpeakStep(t, "edge")
       ELSE SpeakStep(t, "offline")
    /\ UNCHANGED <<pyttsx_engine, nspeak, spoken>>
    /\ SpeakFrame
    /\ ModuleFrame

\* _speak_edge calls _speak_offline: "except ImportError" inside the
\* coroutine, or the bare except around asyncio.run
FallsBack(o) == o \in {"ImportError", "run raises"}

\* _speak_edge(text), lines 334-378
_speak_edge(t) ==
    /\ t.pc = "edge"
    /\ \E o \in EdgeOutcomes :
         /\ spoken' = Append(spoken, Call("_speak_edge", t.text, o = "ok"))
         /\ IF FallsBack(o) THEN SpeakStep(t, "offline") ELSE SpeakReturn(t)
    /\ UNCHANGED <<pyttsx_engine, nspeak>>
    /\ SpeakFrame
    /\ ModuleFrame

\* _speak_offline(text), lines 323-332: pyttsx3 is initialised on the
\* first use (it may be missing), then say/runAndWait speaks or raises
_speak_offline(t) ==
    /\ t.pc = "offline"
    /\ \E init \in BOOLEAN, said \in BOOLEAN :
         /\ pyttsx_engine' = (pyttsx_engine \/ init)
         /\ spoken' = Append(spoken,
                 Call("_speak_offline", t.text, pyttsx_engine' /\ said))
    /\ SpeakReturn(t)
    /\ UNCHANGED nspeak
    /\ SpeakFrame
    /\ ModuleFrame

speak ==
    \E t \in BagToSet(sthreads) :
        \/ speak_begin(t)
        \/ _speak_edge(t)
        \/ _speak_offline(t)

\* a VoiceModule with either engine, nothing said yet
InitSpeak ==
    /\ voice_module = TRUE
    /\ is_recording = FALSE
    /\ pending_code = None
    /\ response_label = InitText
    /\ input_field = <<>>
    /\ confirm_btn = FALSE
    /\ cancel_btn = FALSE
    /\ stop_recording = FALSE
    /\ threads = EmptyBag
    /\ nthreads = 0
    /\ vthreads = EmptyBag
    /\ nvoice = 0
    /\ sigq = <<>>
    /\ history_file \in InitFiles
    /\ executed = <<>>
    /\ audio_chunks = NoChunks
    /\ silence_samples = 0
    /\ rec_pc = "idle"
    /\ tts_engine \in {"offline", "edge"}
    /\ pyttsx_engine = FALSE
    /\ sthreads = EmptyBag
    /\ nspeak = 0
    /\ spoken = <<>>
    /\ audio_libs \in BOOLEAN
    /\ InitPet

NextSpeak ==
    \/ speak_async
    \/ speak

SpecSpeak == InitSpeak /\ [][NextSpeak]_vars

\* ------------------------------------------------------------ specification
Next ==
    \/ send_message
    \/ toggle_voice_input
    \/ Deliver
    \/ _on_confirm_execute
    \/ _on_cancel_execute
    \/ _call_llm
    \/ _record_voice

Spec == Init /\ [][Next]_vars

\* --------------------------------------------- turns without the voice module
\* HAS_VOICE is false (the import of voice.py failed): the voice button is
\* disabled and every turn is typed
InitNoVoice == Init /\ voice_module = FALSE

NextNoVoice ==
    \/ send_message
    \/ Deliver
    \/ _on_confirm_execute
    \/ _on_cancel_execute
    \/ _call_llm

\* Scheduling: a thread that can run does run (every request it waits for
\* has a timeout: 120 s for /chat, 30 s for the fallback), and the event
\* loop gets to every queued emission.
SpecNoVoiceFair ==
    /\ InitNoVoice
    /\ [][NextNoVoice]_vars
    /\ WF_vars(_call_llm)
    /\ WF_vars(Deliver)

\* ------------------------------------------------ turns answered at length
\* return is pressed on a request of LongInputs
send_long_message == \E t \in LongInputs : SendMessage(t)

NextLong ==
    \/ send_long_message
    \/ Deliver
    \/ _on_confirm_execute
    \/ _on_cancel_execute
    \/ _call_llm

SpecLong == InitNoVoice /\ [][NextLong]_vars

\* ------------------------------------------------ the activity timer
\* what a GET of /context may return (line 653): an exception (connection
\* refused, the 1 s timeout), or a status with a body; the body is the JSON
\* object of the reply
ContextBodies ==
    { [success |-> TRUE, app |-> App1, title |-> Title1],
      [success |-> TRUE, app |-> App2, title |-> LongTitle],
      [success |-> TRUE, app |-> App2],
      [success |-> FALSE, app |-> App2, title |-> Title2] }

ContextOutcomes ==
    { [kind |-> "exc", status |-> 0, body |-> EmptyDict],
      [kind |-> "http", status |-> 500,
       body |-> [success |-> TRUE, app |-> App2, title |-> Title2]] }
    \cup { [kind |-> "http", status |-> 200, body |-> b] : b \in ContextBodies }

\* lines 654-656: the status is 200 and data.get("success") is truthy
ContextOk(o) ==
    o.kind = "http" /\ o.status = 200 /\ Get(o.body, "success", FALSE)

\* a field get_context reads was assigned: the threads that have read
\* one and have not returned from get_context are marked
Reading(t) == t.pc = "post_chat" /\ t.ctx \notin {"if", "done"}

MarkPolled(b) ==
    LET S == { IF Reading(t) THEN [t EXCEPT !.polled = TRUE] ELSE t :
                 t \in BagToSet(b) } IN
    [u \in S |-> IF Reading(u)
                 THEN CopiesIn([u EXCEPT !.polled = FALSE], b)
                      + CopiesIn([u EXCEPT !.polled = TRUE], b)
                 ELSE CopiesIn(u, b)]

\* what a step of the timer slot leaves alone
ActivityFrame ==
    UNCHANGED <<voice_module, audio_libs, is_recording, pending_code,
                response_label, input_field, confirm_btn, cancel_btn,
                stop_recording, nthreads, vthreads, nvoice, sigq,
                history_file, executed, voice_state>>

\* the slot in which every reply clears what it cannot replace
_update_activity_get_clearing ==
    /\ activity.pc = "idle"
    /\ \E o \in ContextOutcomes :
         /\ current_title' = IF ContextOk(o)
                             THEN Get(o.body, "title", <<>>) ELSE <<>>
         /\ activity' = IF ContextOk(o)
                        THEN [pc |-> "app", data |-> o.body, reply |-> <<o>>]
                        ELSE [IdleActivity EXCEPT !.reply = <<o>>]
    /\ threads' = IF current_title' # current_title
                  THEN MarkPolled(threads) ELSE threads
    /\ UNCHANGED current_app
    /\ ActivityFrame

\* the timer fires: lines 652-657, from the GET to the assignment of
\* current_title; every failure leaves the slot (line 659)
_update_activity_get ==
    /\ activity.pc = "idle"
    /\ \E o \in ContextOutcomes :
         IF ContextOk(o)
         THEN /\ current_title' = Get(o.body, "title", <<>>)
              /\ activity' = [pc |-> "app", data |-> o.body, reply |-> <<o>>]
         ELSE /\ UNCHANGED current_title
              /\ activity' = [IdleActivity EXCEPT !.reply = <<o>>]
    /\ threads' = IF current_title' # current_title
                  THEN MarkPolled(threads) ELSE threads
    /\ UNCHANGED current_app
    /\ ActivityFrame

\* line 658: current_app is assigned and the slot returns
_update_activity_app ==
    /\ activity.pc = "app"
    /\ current_app' = Get(activity.data, "app", <<>>)
    /\ activity' = [activity EXCEPT !.pc = "idle", !.data = EmptyDict]
    /\ threads' = IF current_app' # current_app
                  THEN MarkPolled(threads) ELSE threads
    /\ UNCHANGED current_title
    /\ ActivityFrame

_update_activity == _update_activity_get \/ _update_activity_app

\* the event loop is not inside the timer slot
EventLoopFree == activity.pc = "idle"

\* return is pressed on a request while the timer slot is not running
\* (the slots of the event loop run one at a time)
send_polled_message ==
    /\ EventLoopFree
    /\ nthreads < MaxPolled
    /\ send_long_message

\* the worker from its start to the request it sends to /chat
_call_llm_compose ==
    \E t \in BagToSet(threads) :
        \/ _call_llm_get_context(t)
        \/ _call_llm_post_chat(t)

\* typed turns, up to their request, while the activity timer polls
\* /context every 3 s
NextContext ==
    \/ _update_activity
    \/ send_polled_message
    \/ _call_llm_compose

SpecContext == InitNoVoice /\ [][NextContext]_vars

\* --------------------------------------------- the log across file contents
\* a session without the voice module that finds any of LogFiles
InitLog ==
    /\ voice_module = FALSE
    /\ is_recording = FALSE
    /\ pending_code = None
    /\ response_label = InitText
    /\ input_field = <<>>
    /\ confirm_btn = FALSE
    /\ cancel_btn = FALSE
    /\ stop_recording = FALSE
    /\ threads = EmptyBag
    /\ nthreads = 0
    /\ vthreads = EmptyBag
    /\ nvoice = 0
    /\ sigq = <<>>
    /\ history_file \in LogFiles
    /\ executed = <<>>
    /\ InitVoiceModule
    /\ audio_libs = FALSE
    /\ InitPet

NextLog ==
    \/ send_message
    \/ Deliver
    \/ _call_llm

SpecLog == InitLog /\ [][NextLog]_vars

TypeOK ==
    /\ nthreads \in 0..MaxTurns
    /\ nvoice \in 0..MaxTurns
    /\ nthreads + nvoice <= MaxTurns
    /\ Len(sigq) <= MaxTurns
    /\ BagCardinality(threads) <= MaxTurns

\* -------------------------------------------------------------- properties
Live == BagToSet(threads)

\* in this step, thread t moved on with locals u / thread t ended
Moved(t, u) ==
    /\ t # u
    /\ BagIn(t, threads)
    /\ threads' = (threads (-) SetToBag({t})) (+) SetToBag({u})

\* in this step, thread t took a step of its code and has locals u
Advanced(t, u) == Moved(t, u) /\ u.pc # t.pc

Ended(t) ==
    /\ BagIn(t, threads)
    /\ threads' = threads (-) SetToBag({t})

\* in this step, signal m was emitted
Emitted(m) == sigq' = Append(sigq, m)

\* C1: No execution without confirmation.  A POST to /execute is made only
\* by a step of the confirm handler taken while a pending action is set,
\* and it posts that action; the pending action is only ever set from a
\* delivered code_confirm_ready, which only a dispatch thread whose result
\* has mode 'agent' and a non-empty pending_code emits; every request
\* sent to /chat carries auto_run = false.
C1_NoExecutionWithoutConfirmation ==
    [][ /\ executed' # executed =>
              /\ _on_confirm_execute
              /\ TruthyDict(pending_code)
              /\ executed' = Append(executed,
                     [language |-> pending_code[1]["language"],
                      code |-> pending_code[1]["code"]])
        /\ (pending_code' # pending_code /\ pending_code' # None) =>
              /\ sigq # <<>>
              /\ Head(sigq).sig = "code_confirm_ready"
              /\ pending_code' = Head(sigq).code
        /\ \A i \in 1..Len(sigq') :
              sigq'[i].sig = "code_confirm_ready" =>
                 \/ \E j \in 1..Len(sigq) : sigq[j].code = sigq'[i].code
                                           /\ sigq[j].sig = "code_confirm_ready"
                 \/ \E t \in Live : /\ Ended(t)
                                    /\ t.mode = "agent"
                                    /\ t.primary = "answered"
                                    /\ TruthyDict(t.pending_code)
                                    /\ sigq'[i].code = t.pending_code
        /\ \A t \in BagToSet(threads') :
              t.pc # "post_chat" => t.chat_json.auto_run = FALSE
      ]_vars

C1_Witness == executed # <<>>

\* C2: A pending action is produced only for mode 'agent' with a non-empty
\* payload.  The hand-off of an answered turn is code_confirm_ready exactly
\* when the turn's mode is 'agent' and its payload is a non-empty dict;
\* otherwise (payload with a 'chat' result, or payload of the primary in a
\* turn answered by the fallback) it is a response_ready carrying only the
\* labelled answer text.
C2_PendingOnlyForAgentWithPayload ==
    [][ /\ \A t \in Live :
              (t.pc = "emit" /\ Ended(t)) =>
                 \E m \in {sigq'[Len(sigq')]} :
                    /\ Emitted(m)
                    /\ IF t.mode = "agent" /\ t.pending_code # None
                          /\ t.pending_code # <<EmptyDict>>
                       THEN /\ m.sig = "code_confirm_ready"
                            /\ m.code = t.pending_code
                       ELSE /\ m.sig = "response_ready"
                            /\ m.code = None
                            /\ m.text = ModeLabel(t.mode) \o <<" ">> \o t.answer
        /\ \A i \in 1..Len(sigq') :
              sigq'[i].sig = "code_confirm_ready" =>
                 sigq'[i].code \notin {None, <<EmptyDict>>}
        /\ pending_code' # <<EmptyDict>>
      ]_vars

\* a pending action has been produced by one turn, and another turn that
\* carries a payload with a mode other than 'agent' is at its hand-off
C2_Witness ==
    /\ pending_code # None
    /\ \E t \in Live : /\ t.pc = "emit"
                        /\ TruthyDict(t.pending_code)
                        /\ t.mode # "agent"

\* C3: If the primary backend answered (status 200, non-empty response),
\* the fallback backend is never invoked in that turn: such a thread has
\* sent no fallback request and is past the fallback stage.
C3_NoFallbackAfterPrimaryAnswer ==
    \A t \in Live :
        t.primary = "answered" =>
            /\ t.nfallback = 0
            /\ t.mode # "fallback"
            /\ t.pc \in {"save", "emit"}

C3_Witness == \E t \in Live : t.primary = "answered" /\ t.pc = "emit"

\* C4: If the primary backend failed or returned an empty response, the
\* fallback is invoked exactly once and only after the primary attempt
\* ended: no fallback request exists while the primary is outstanding;
\* once the primary has failed the thread has sent one fallback request,
\* never a second one, and cannot finish the turn without it.
C4_FallbackExactlyOnce ==
    [][ /\ \A t \in BagToSet(threads') :
              /\ t.primary = "none" => t.nfallback = 0
              /\ t.pc \in {"post_chat", "wait_chat"} =>
                    t.primary = "none" /\ t.nfallback = 0
              /\ t.primary = "failed" =>
                    /\ t.pc \in {"wait_fallback", "save", "emit"}
                    /\ t.nfallback = 1
        /\ \A t \in Live :
              Ended(t) /\ t.primary = "failed" => t.nfallback = 1
        /\ \A t \in Live : Ended(t) => t.primary # "none"
      ]_vars

C4_Witness ==
    \E t \in Live : t.primary = "failed" /\ t.nfallback = 1 /\ t.pc = "emit"

\* both backends failed to produce a reply and thread t ends reporting it
BothFailed(t) ==
    /\ Ended(t)
    /\ t.primary = "failed"
    /\ t.nfallback = 1
    /\ t.pc = "wait_fallback"

\* C5: When the primary fails or returns empty and the fallback fails too
\* (exception, non-success status or empty content), the reply handed to
\* the UI is the one fixed unreachability message.
C5_FixedUnreachableMessage ==
    [][ \A t \in Live :
          BothFailed(t) =>
             Emitted(Signal("response_ready", Unreachable, None, t.newer))
      ]_vars

\* C6 as stated: when both backends fail, the turn is appended to the log
\* with the failure message as its ai field.
C6_FailedTurnAppended ==
    [][ \A t \in Live :
          BothFailed(t) =>
             \E i \in 1..Len(load_history(history_file')) :
                LET e == load_history(history_file')[i] IN
                /\ e.user = t.prompt
                /\ e.ai = Take(sigq'[Len(sigq')].text, AiLen)
      ]_vars

\* C6 amended: when both backends fail, the turn is not appended to the
\* log: the ending thread leaves the file as it is, only a thread with a
\* non-empty answer ever reaches the load/save steps, and no stored entry
\* has a failure message (or nothing) as its ai field.
C6_FailedTurnNotAppended ==
    [][ /\ \A t \in Live :
              BothFailed(t) =>
                 /\ history_file' = history_file
                 /\ \E m \in {sigq'[Len(sigq')]} :
                       /\ Emitted(m)
                       /\ m.sig = "response_ready"
                       /\ m.text \in {Unreachable, NoAnswer}
        /\ \A t \in BagToSet(threads') :
              t.pc \in {"save", "emit"} => t.answer # <<>>
        /\ \A i \in 1..Len(load_history(history_file')) :
              load_history(history_file')[i].ai \notin {<<>>, Unreachable, NoAnswer}
      ]_vars

\* the failure message of the only turn is shown and the log is still empty
C6_Witness ==
    /\ nthreads = 1
    /\ threads = EmptyBag
    /\ response_label \in {Unreachable, NoAnswer}
    /\ load_history(history_file) = <<>>

\* C7: After a confirm on a pending action, pending_code is None and both
\* buttons are hidden, whatever the /execute call did (200, non-success
\* status, exception, or a payload without the language key).
C7_ConfirmAlwaysClears ==
    [][ (TruthyDict(pending_code) /\ _on_confirm_execute) =>
           (pending_code' = None /\ ~confirm_btn' /\ ~cancel_btn')
      ]_vars

\* a confirm that raised KeyError has been handled
C7_Witness ==
    /\ response_label = <<"Execution error: ">> \o KeyErrMsg
    /\ pending_code = None
    /\ ~confirm_btn

\* C8: Cancel issues no network request (no /execute, no dispatch thread
\* started or advanced), leaves pending_code = None with both buttons
\* hidden, shows the cancellation notice and leaves the log unchanged.
C8_CancelClearsWithoutNetwork ==
    [][ _on_cancel_execute =>
           /\ pending_code' = None
           /\ ~confirm_btn'
           /\ ~cancel_btn'
           /\ response_label' = Cancelled
           /\ executed' = executed
           /\ history_file' = history_file
           /\ nthreads' = nthreads
           /\ Settle(threads') = Settle(threads)
      ]_vars

C8_Witness == response_label = Cancelled /\ pending_code = None /\ ~cancel_btn

\* C9: A pending action is cleared when replaced by a newer turn: when the
\* result (chat, fallback or error) of a turn submitted while the pending
\* action was awaiting confirmation is delivered, the pending action is no
\* longer set and its buttons are gone.
C9_PendingClearedByNewerTurn ==
    [][ (Deliver /\ Head(sigq).sig = "response_ready" /\ Head(sigq).newer) =>
           (pending_code' = None /\ ~confirm_btn')
      ]_vars

\* C10: At most one dispatch thread is in flight at any time.
C10_OneDispatchInFlight == BagCardinality(threads) <= 1

\* C11: The append is FIFO-capped at 100.  When a worker appends turn T to
\* the log L it loaded, the list H it goes on to store ends with T, is at
\* most 100 long, is L followed by T (one longer) when L is below the cap,
\* and is the last 99 entries of L followed by T when L is at the cap; the
\* list a save stores is the worker's H, at most 100 entries.
C11_AppendFifoCapped ==
    [][ /\ \A t \in Live : \A u \in BagToSet(threads') :
              (Advanced(t, u) /\ u.pc = "save") =>
                 LET L == load_history(history_file)
                     H == u.history
                     T == Turn(u.prompt, u.answer)
                 IN /\ Len(H) <= HistoryCap
                    /\ H[Len(H)] = T
                    /\ Len(L) < HistoryCap =>
                          /\ Len(H) = Len(L) + 1
                          /\ SubSeq(H, 1, Len(L)) = L
                    /\ Len(L) >= HistoryCap =>
                          /\ Len(H) = HistoryCap
                          /\ \A i \in 1..(HistoryCap - 1) :
                                H[i] = L[Len(L) - HistoryCap + 1 + i]
        /\ \A t \in Live :
              (t.pc = "save" /\ Moved(t, [t EXCEPT !.pc = "emit",
                                                  !.history = <<>>])) =>
                 /\ Len(load_history(history_file')) <= HistoryCap
                 /\ history_file'.kind = "list" => history_file'.turns = t.history
      ]_vars

\* two turns were appended to a log that held 100 entries: the two oldest
\* entries are gone and the two turns are last
C11_Witness ==
    /\ history_file.kind = "list"
    /\ Len(history_file.turns) = HistoryCap
    /\ history_file.turns[1] = OldTurn(3)
    /\ history_file.turns[HistoryCap - 2] = OldTurn(HistoryCap)
    /\ history_file.turns[HistoryCap - 1].user = Hi
    /\ history_file.turns[HistoryCap].user = Hi

\* C12: Round trip.  After save_history(turns) for a list of turns within
\* the cap, load_history() returns a list equal to turns.
C12_SaveLoadRoundTrip ==
    [][ \A t \in Live :
          (t.pc = "save" /\ Moved(t, [t EXCEPT !.pc = "emit",
                                              !.history = <<>>])) =>
             /\ LoadsList(history_file')
             /\ load_history(history_file') = t.history
      ]_vars

\* in this step, thread t was ended by an exception nothing catches: it
\* ended without a hand-off
Crashed(t) == Ended(t) /\ sigq' = sigq

\* C13: load_history returns a sequence of turns whatever the file holds
\* (the empty one when the file is missing, unreadable or not a list of
\* turns), so that the append a dispatch worker performs on what it loaded
\* cannot fail: no worker is ended by an exception.
C13_LoadedLogAcceptsAppend ==
    [][ \A t \in Live : ~Crashed(t) ]_vars

\* C14: A voice capture that ends with an empty transcript (or whose
\* initialisation or capture failed) starts no dispatch thread, makes no
\* request and creates no log entry: the slot shows the 'did not catch
\* that' text and is_recording is false.  A non-empty transcript has the
\* effect of submitting that text: the field is cleared, the placeholder
\* is shown and one dispatch thread is started on the stripped text.  A
\* capture thread that ends at initialisation hands off the empty text.
C14_EmptyTranscriptNoDispatch ==
    [][ /\ (Deliver /\ Head(sigq).sig = "voice_text_ready") =>
              /\ ~is_recording'
              /\ UNCHANGED <<history_file, executed, pending_code>>
              /\ IF Head(sigq).text = <<>>
                 THEN /\ response_label' = NotHeard
                      /\ UNCHANGED <<threads, nthreads>>
                 ELSE /\ response_label' = Thinking
                      /\ input_field' = <<>>
                      /\ nthreads' = nthreads + 1
                      /\ threads' = threads (+) SetToBag(
                            {NewThread(Strip(Head(sigq).text),
                                       pending_code # None)})
        /\ (BagIn("init", vthreads) /\ vthreads' = EmptyBag) =>
              Emitted(Signal("voice_text_ready", <<>>, None, FALSE))
      ]_vars

\* the only capture ended with an empty transcript and was answered
C14_Witness ==
    /\ nvoice = 1
    /\ nthreads = 0
    /\ vthreads = EmptyBag
    /\ sigq = <<>>
    /\ response_label = NotHeard
    /\ ~is_recording

\* C15: send_message on an empty or whitespace-only text is a no-op: no
\* thread is started, no request is made, and the displayed text, the log
\* and the pending action are unchanged.
C15_BlankSendIsNoOp ==
    [][ \A t \in InputTexts :
          (Strip(t) = <<>> /\ SendMessage(t)) =>
             UNCHANGED <<response_label, threads, nthreads, sigq,
                         history_file, pending_code, confirm_btn,
                         cancel_btn, executed, is_recording>>
      ]_vars

\* a whitespace-only text was sent while a pending action is shown
C15_Witness ==
    /\ input_field = <<" ">>
    /\ pending_code # None
    /\ confirm_btn
    /\ response_label = ConfirmText(Hi, Code1)

\* the stored text of every entry of the list can be written
Writable(history) ==
    \A i \in 1..Len(history) :
        Encodable(history[i].user) /\ Encodable(history[i].ai)

C17_NetworkOffEventLoop ==
    [][ /\ executed' # executed => (_call_llm \/ _record_voice)
        /\ (\E u \in BagToSet(threads') :
               /\ u.pc \in {"wait_chat", "wait_fallback"}
               /\ ~BagIn(u, threads)) => _call_llm
      ]_vars

\* what the controller shows and holds
ui == <<response_label, pending_code, confirm_btn, cancel_btn, is_recording,
        input_field>>

\* C18: Dispatch and capture threads never write the state of the
\* controller (displayed text, pending_code, button visibility,
\* is_recording, input field): a step of a worker leaves it unchanged, and
\* every change of it is made by a slot run for a delivered hand-off or by
\* the handler of a user event.
C18_WorkersNeverWriteUi ==
    [][ /\ (_call_llm \/ _record_voice) => UNCHANGED ui
        /\ ui' # ui =>
              \/ Deliver
              \/ send_message
              \/ toggle_voice_input
              \/ _on_confirm_execute
              \/ _on_cancel_execute
      ]_vars

\* the answer of a worker that has ended is shown, delivered by the queue
C18_Witness ==
    /\ nthreads = 1
    /\ threads = EmptyBag
    /\ sigq = <<>>
    /\ response_label = ModeLabel("fallback") \o <<" ">> \o Hi

\* the capture loop has ended
Stopped == rec_pc \in {"manual", "silence", "max", "error"}

C20_EdgeFailureFallsBack ==
    [][ \A t \in BagToSet(sthreads) :
          (t.pc = "edge" /\ spoken' = Append(spoken,
                                Call("_speak_edge", t.text, FALSE))) =>
             sthreads' = (sthreads (-) SetToBag({t}))
                            (+) SetToBag({[t EXCEPT !.pc = "offline"]})
      ]_vars

\* C21: For a primary result with mode 'agent', a non-empty response and a
\* non-empty pending_code, the controller enters confirmation.  The worker
\* goes on to the save and hands the turn off as code_confirm_ready with
\* the response and exactly the payload of the backend; when that is
\* delivered, pending_code is that payload, both buttons are visible and
\* the display is '[Agent] ', the response, the heading, the first 100
\* characters of the code and the dots.
C21_AgentResultAwaitsConfirmation ==
    [][ /\ \A t \in Live : \A u \in BagToSet(threads') :
              (Advanced(t, u) /\ t.pc = "wait_chat" /\ u.answer # <<>>
                 /\ u.mode = "agent" /\ TruthyDict(u.pending_code)) =>
                 /\ u.pc = "save"
                 /\ \E b \in ChatBodies \cup ChatBodiesLong :
                       /\ "pending_code" \in DOMAIN b
                       /\ b.mode = "agent"
                       /\ b.response = u.answer
                       /\ b.pending_code = u.pending_code
        /\ \A t \in Live :
              (Ended(t) /\ t.pc = "emit" /\ t.answer # <<>> /\ t.mode = "agent"
                 /\ TruthyDict(t.pending_code)) =>
                 Emitted(Signal("code_confirm_ready", t.answer,
                                t.pending_code, t.newer))
        /\ (Deliver /\ Head(sigq).sig = "code_confirm_ready") =>
              LET m == Head(sigq)
                  c == IF "code" \in DOMAIN m.code[1]
                       THEN m.code[1]["code"] ELSE <<>>
              IN /\ pending_code' = m.code
                 /\ confirm_btn'
                 /\ cancel_btn'
                 /\ response_label' =
                       <<"[Agent] ">> \o m.text \o <<"\n\nCode to run:\n">>
                          \o [i \in 1..Min(100, Len(c)) |-> c[i]] \o <<"...">>
      ]_vars

\* the action whose code has 101 characters awaits confirmation: the
\* display holds the response and 100 characters of the code
C21_Witness ==
    /\ pending_code = <<CodeLong>>
    /\ Len(CodeLong.code) = 101
    /\ confirm_btn
    /\ cancel_btn
    /\ response_label = <<"[Agent] ">> \o Hi \o <<"\n\nCode to run:\n">>
                           \o [i \in 1..100 |-> "x"] \o <<"...">>

\* C22: Every dispatch that yields a non-empty answer appends exactly one
\* entry to the log.  A worker whose primary or fallback request returned
\* a non-empty answer goes on to the save (whatever its mode and payload),
\* with the log it loaded followed by one entry whose user field is the
\* text it was started on and whose ai field is the first 200 characters
\* of the answer; it saves once, the save stores that list when its text
\* can be encoded, and then it hands the turn off.  The text a thread is
\* started on is the submitted utterance, and no stored ai field is longer
\* than 200 characters.
C22_OneEntryPerAnsweredTurn ==
    [][ /\ \A t \in Live : \A u \in BagToSet(threads') :
              Advanced(t, u) =>
                 /\ u.prompt = t.prompt
                 /\ (t.pc \in {"wait_chat", "wait_fallback"}
                       /\ u.pc # "wait_fallback") =>
                       /\ u.answer # <<>>
                       /\ u.pc = "save"
                       /\ LET L == load_history(history_file)
                              e == u.history[Len(u.history)]
                          IN /\ e.user = u.prompt
                             /\ e.ai = [i \in 1..Min(200, Len(u.answer)) |->
                                           u.answer[i]]
                             /\ Len(L) < HistoryCap => u.history = Append(L, e)
                 /\ t.pc = "save" =>
                       /\ u.pc = "emit"
                       /\ Writable(t.history) =>
                             history_file' = [kind |-> "list",
                                              turns |-> t.history]
                 /\ u.pc = "save" => t.pc \in {"wait_chat", "wait_fallback"}
        /\ \A t \in Live :
              (Ended(t) /\ t.pc \in {"wait_chat", "wait_fallback"}) =>
                 /\ Emitted(sigq'[Len(sigq')])
                 /\ sigq'[Len(sigq')].text \in {NoAnswer, Unreachable}
                 /\ history_file' = history_file
        /\ \A t \in InputTexts \cup LongInputs :
              (SendMessage(t) /\ threads' # threads) =>
                 \E u \in BagToSet(threads') :
                    /\ u.prompt = Strip(t)
                    /\ u.pc = "post_chat"
                    /\ threads' = threads (+) SetToBag({u})
        /\ \A i \in 1..Len(load_history(history_file')) :
              Len(load_history(history_file')[i].ai) <= 200
      ]_vars

\* the log holds the entry of a turn whose answer had 201 characters,
\* of which 200 are stored, and the entry of a turn the fallback answered
C22_Witness ==
    /\ history_file.kind = "list"
    /\ Len(history_file.turns) = 2
    /\ history_file.turns[1] =
          [time |-> Now, user |-> Go, ai |-> [j \in 1..200 |-> "y"]]
    /\ history_file.turns[2] = [time |-> Now, user |-> Go, ai |-> Hi]

\* C23: A turn with a non-empty answer that does not enter confirmation
\* is handed to the UI as response_ready with the text '<label> <answer>':
\* [Backup] when the fallback produced the answer, [Chat] for mode chat
\* and [Agent] for mode agent (then without a pending action) when the
\* primary did.  A thread that has called the fallback has mode
\* 'fallback' whatever the primary reported, so it never hands off a
\* confirmation; the hand-off and its delivery leave pending_code and the
\* buttons as they are, and the delivery displays the text.
C23_LabelledReply ==
    [][ /\ \A t \in Live :
              (Ended(t) /\ t.pc = "emit"
                 /\ ~(t.mode = "agent" /\ TruthyDict(t.pending_code))) =>
                 LET label == IF t.primary = "failed" THEN <<"[Backup]">>
                              ELSE IF t.mode = "chat" THEN <<"[Chat]">>
                              ELSE <<"[Agent]">>
                 IN /\ Emitted(Signal("response_ready",
                                      label \o <<" ">> \o t.answer, None,
                                      t.newer))
                    /\ t.answer # <<>>
                    /\ UNCHANGED <<pending_code, confirm_btn, cancel_btn>>
        /\ \A t \in BagToSet(threads') :
              /\ t.nfallback > 0 => t.mode = "fallback"
              /\ t.pc \in {"save", "emit"} =>
                    (t.mode = "fallback" <=> t.primary = "failed")
        /\ \A t \in Live :
              (Ended(t) /\ t.primary = "failed") =>
                 sigq'[Len(sigq')].sig = "response_ready"
        /\ (Deliver /\ Head(sigq).sig = "response_ready") =>
              /\ response_label' = Head(sigq).text
              /\ UNCHANGED <<pending_code, confirm_btn, cancel_btn>>
      ]_vars

\* the answer of an agent turn without a pending action is shown, and no
\* confirmation was entered
C23_Witness ==
    /\ response_label = <<"[Agent]", " ", "h", "i">>
    /\ pending_code = None
    /\ ~confirm_btn
    /\ ~cancel_btn
    /\ executed = <<>>

\* C24: A manual stop is never lost.  Once the user has pressed the voice
\* button while is_recording was true (the display then reads
\* 'transcribing'), the capture loop of that recording ends by manual stop
\* at its next poll, wherever the capture thread was when the button was
\* pressed.
C24_ManualStopNeverLost ==
    [][ (is_recording /\ response_label = Transcribing
           /\ rec_pc = "sleep" /\ rec_pc' \notin {"sleep", "error"}) =>
           rec_pc' = "manual"
      ]_vars

\* the text is the preview of the action code: '[Agent] ', a response,
\* the heading, the first 100 characters of the code and the dots
ShowsPreview(text, code) ==
    LET c == IF "code" \in DOMAIN code THEN code["code"] ELSE <<>>
        tail == <<"\n\nCode to run:\n">>
                   \o [i \in 1..Min(100, Len(c)) |-> c[i]] \o <<"...">>
    IN /\ Len(text) > Len(tail)
       /\ text[1] = "[Agent] "
       /\ SubSeq(text, Len(text) - Len(tail) + 1, Len(text)) = tail

\* C25: Whenever a pending action is set and the confirm button is
\* visible, the response area shows the preview of exactly that action:
\* no placeholder and no later reply stands in its place while the action
\* can still be confirmed.
C25_PreviewShownWhileConfirmable ==
    (pending_code # None /\ confirm_btn) =>
        ShowsPreview(response_label, pending_code[1])

\* C26: No answered turn is lost from the log when dispatch workers
\* overlap.  Below the cap and with text that can be written, the save of
\* a worker leaves the log as it was at that moment followed by the entry
\* of the worker's turn, so that once all answered workers have finished
\* the log holds one entry for each of them.
C26_NoAnsweredTurnLost ==
    [][ \A t \in Live :
          (t.pc = "save" /\ Writable(t.history)
             /\ Len(t.history) < HistoryCap
             /\ Moved(t, [t EXCEPT !.pc = "emit", !.history = <<>>])) =>
             load_history(history_file')
                = Append(load_history(history_file),
                         Turn(t.prompt, t.answer))
      ]_vars

\* C27: Every dispatch worker delivers exactly one hand-off.  A worker
\* emits nothing while it runs and ends with one emission, response_ready
\* or code_confirm_ready: the hand-off of its answer from the emit step,
\* the unreachability or the no-answer text from the fallback stage; no
\* such emission comes from anything but an ending worker.  Again and
\* again every worker has ended, every emission has been delivered and
\* the 'thinking' placeholder is not what is shown.
C27_ExactlyOneHandoff ==
    /\ [][ /\ \A t \in Live : \A u \in BagToSet(threads') :
                 Advanced(t, u) => sigq' = sigq
           /\ \A t \in Live :
                 Ended(t) =>
                    /\ Len(sigq') = Len(sigq) + 1
                    /\ Emitted(sigq'[Len(sigq')])
                    /\ sigq'[Len(sigq')].sig
                          \in {"response_ready", "code_confirm_ready"}
                    /\ t.pc \in {"wait_chat", "wait_fallback", "emit"}
                    /\ t.pc = "emit" =>
                          sigq'[Len(sigq')].text \notin {NoAnswer, Unreachable}
                    /\ t.pc # "emit" =>
                          /\ sigq'[Len(sigq')].sig = "response_ready"
                          /\ sigq'[Len(sigq')].text \in {NoAnswer, Unreachable}
           /\ (Len(sigq') > Len(sigq)
                 /\ sigq'[Len(sigq')].sig # "voice_text_ready") =>
                 \E t \in Live : Ended(t)
         ]_vars
    /\ []<>(threads = EmptyBag /\ sigq = <<>> /\ response_label # Thinking)

\* two workers have ended, one on the fallback's exception and one with
\* an answer, and both hand-offs are queued
C27_Witness ==
    /\ nthreads = 2
    /\ threads = EmptyBag
    /\ Len(sigq) = 2
    /\ \E i \in 1..2 : sigq[i].text = Unreachable
    /\ \E i \in 1..2 : sigq[i].text = <<"[Backup]", " ", "h", "i">>

\* voice_text_ready emissions the event loop has not handled yet
QueuedVoice ==
    Cardinality({ i \in 1..Len(sigq) : sigq[i].sig = "voice_text_ready" })

\* C28: At most one voice-capture worker exists at any time.  While
\* is_recording is true there is exactly one capture thread or one
\* voice_text_ready emission not yet handled, and neither when it is
\* false.  is_recording becomes true only by the voice button starting a
\* capture thread, and false only by the slot handling a voice_text_ready.
\* A press while is_recording is true sets the stop flag and starts
\* nothing.  A capture thread ends only by emitting voice_text_ready, once.
C28_OneCaptureWorker ==
    [][ /\ BagCardinality(vthreads') + QueuedVoice' =
              IF is_recording' THEN 1 ELSE 0
        /\ (~is_recording /\ is_recording') =>
              /\ toggle_voice_input
              /\ nvoice' = nvoice + 1
              /\ vthreads' = vthreads (+) SetToBag({"init"})
        /\ (is_recording /\ ~is_recording') =>
              /\ Deliver
              /\ Head(sigq).sig = "voice_text_ready"
        /\ nvoice' # nvoice => (~is_recording /\ is_recording')
        /\ (toggle_voice_input /\ is_recording) =>
              /\ stop_recording'
              /\ UNCHANGED <<is_recording, vthreads, nvoice, sigq>>
        /\ BagCardinality(vthreads') < BagCardinality(vthreads) =>
              /\ Len(sigq') = Len(sigq) + 1
              /\ Emitted(sigq'[Len(sigq')])
              /\ sigq'[Len(sigq')].sig = "voice_text_ready"
        /\ QueuedVoice' > QueuedVoice =>
              BagCardinality(vthreads') = BagCardinality(vthreads) - 1
      ]_vars

\* a second recording is running after the first was stopped by the
\* button and handled
C28_Witness ==
    /\ nvoice = 2
    /\ is_recording
    /\ vthreads = SetToBag({"recording"})
    /\ sigq = <<>>
    /\ response_label = Transcribing

\* C29: Between the handlers of the event loop, the confirm button and
\* the cancel button are visible if and only if pending_code is set.
C29_ButtonsIffPending ==
    /\ confirm_btn <=> pending_code # None
    /\ cancel_btn <=> pending_code # None

\* an action awaits confirmation while a recording started after its
\* preview was shown is being stopped
C29_Witness ==
    /\ pending_code = <<CodeNoLang>>
    /\ confirm_btn
    /\ cancel_btn
    /\ is_recording
    /\ response_label = Transcribing

\* C30: Every started recording terminates even if the user never presses
\* stop.  Without a stop (and without an exception of the stream) the
\* capture loop is ended by the silence rule or by the ceiling of the
\* maximal duration and by nothing else; it does end, and then voice_input
\* returns and the worker emits its one voice_text_ready.
C30_RecordingTerminates ==
    /\ [][ (Capturing /\ ~Capturing') =>
              /\ rec_pc' \in {"silence", "max", "error"}
              /\ rec_pc' = "silence" =>
                    silence_samples' >= 24000
              /\ rec_pc' = "max" => audio_chunks.total > 480000
         ]_vars
    /\ <>(/\ vthreads = EmptyBag
          /\ rec_pc = "idle"
          /\ Len(sigq) = 1
          /\ sigq[1].sig = "voice_text_ready")

\* the recording went on through loud chunks until the ceiling ended it,
\* and the worker has emitted the transcript
C30_Witness ==
    /\ vthreads = EmptyBag
    /\ rec_pc = "idle"
    /\ ~stop_recording
    /\ silence_samples = 0
    /\ audio_chunks.total > 480000
    /\ sigq = <<Signal("voice_text_ready", Hi, None, FALSE)>>

\* C31: When a library the voice input requires is absent, the voice
\* capability is unavailable from the start: the controller holds no voice
\* module (and so the voice button is disabled), and the absence is not
\* found by a capture thread after the user has started a recording.
C31_VoiceUnavailableUpFront ==
    ~audio_libs =>
        /\ ~voice_module
        /\ ~is_recording
        /\ vthreads = EmptyBag

\* C32: A poll of /context that fails (an exception or the timeout, a
\* status other than 200, a reply whose success is false) leaves
\* current_app and current_title as they were; the two fields change only
\* on a reply with status 200 and success true, and then to the app and
\* the title of that reply.  A dispatch that runs get_context afterwards
\* (no assignment of the fields falls between its reads) composes the
\* context from the values the fields hold, and its request carries the
\* system prompt with that context.
C32_ContextRetained ==
    [][ LET r == activity'.reply IN
        /\ (current_app' # current_app \/ current_title' # current_title) =>
              /\ r # None
              /\ r[1].kind = "http"
              /\ r[1].status = 200
              /\ Get(r[1].body, "success", FALSE) = TRUE
              /\ current_app' \in {current_app, Get(r[1].body, "app", <<>>)}
              /\ current_title' \in
                    {current_title, Get(r[1].body, "title", <<>>)}
        /\ \A t \in Live, u \in BagToSet(threads') :
              /\ (Moved(t, u) /\ t.ctx # "done" /\ u.ctx = "done"
                     /\ ~u.polled) =>
                    u.context = get_context(current_app, current_title)
              /\ (Advanced(t, u) /\ u.pc = "wait_chat") =>
                    u.chat_json.message =
                       SystemPrompt
                          \o (IF t.context = <<>> THEN <<>>
                              ELSE <<"\nCurrent state: ">> \o t.context)
                          \o <<"\n\nUser: ">> \o t.prompt
      ]_vars

\* the last poll failed, the fields keep the application and the long
\* title of an earlier reply, and a worker that read them undisturbed has
\* sent its request with the title cut to 50 characters
C32_Witness ==
    /\ activity = [IdleActivity EXCEPT
                      !.reply = <<[kind |-> "exc", status |-> 0,
                                   body |-> EmptyDict]>>]
    /\ current_app = App2
    /\ current_title = LongTitle
    /\ \E t \in Live :
          /\ t.pc = "wait_chat"
          /\ ~t.polled
          /\ t.context = <<"User is using ">> \o App2 \o <<", window: ">>
                            \o [i \in 1..50 |-> "t"] \o <<"...">>

====
